---- MODULE Spec2Model ----
(***************************************************************************)
(* A model of get_portraits.py: the batch run of main() over the two       *)
(* rosters, the sortname pattern RE_SORTNAME, the infobox reader and the   *)
(* image URL resolver.                                                     *)
(*                                                                         *)
(* Text is modelled as a sequence of tokens.  A token is a run of          *)
(* characters that the program's text operations never split: the literal  *)
(* pieces of RE_SORTNAME ("{{sortname", "|", "}}"), the newline, one blank,*)
(* and words.  str.lower, str.strip, str.lstrip, re.findall and string     *)
(* comparison are computed token by token, as the code computes them       *)
(* character by character.                                                 *)
(***************************************************************************)
EXTENDS Integers, Sequences, FiniteSets, TLC

\* ------------------------------------------------------------------ bounds
\* items (citations, blanks, newlines) in a roster section, SpecRoster
MaxItems == 2
\* citations per roster in the batch run, Spec
MaxRoster == 1
\* templates in a biography article, SpecInfobox
MaxTemplates == 2
\* page nodes in an image-metadata response, SpecImageUrl
MaxPages == 2
\* ii nodes under one page node, SpecImageUrl
MaxII == 2

\* ------------------------------------------------------------------ text
OPENW == "{{sortname"
PIPE == "|"
CLOSE == "}}"
NL == "\n"
SP == " "

\* all sequences over S of length 0..n
RECURSIVE SeqsUpTo(_, _)
SeqsUpTo(S, n) ==
    IF n = 0 THEN {<<>>}
    ELSE LET shorter == SeqsUpTo(S, n - 1)
         IN  shorter \cup {Append(s, x) : s \in {t \in shorter : Len(t) = n - 1}, x \in S}

\* str.lower() on one token
LowerTok(c) ==
    CASE c = "J" -> "j"
      [] c = "D" -> "d"
      [] c = "Q" -> "q"
      [] c = "S" -> "s"
      [] c = "Infobox" -> "infobox"
      [] c = "INFOBOX" -> "infobox"
      [] c = "Senator" -> "senator"
      [] c = "Officeholder" -> "officeholder"
      [] c = "Person" -> "person"
      [] OTHER -> c

\* str.lower()
Lower(s) == [i \in DOMAIN s |-> LowerTok(s[i])]

IsSpace(c) == c \in {SP, NL}

\* str.strip(): leading and trailing whitespace removed
RECURSIVE LStrip(_)
LStrip(s) == IF s # <<>> /\ IsSpace(Head(s)) THEN LStrip(Tail(s)) ELSE s

RECURSIVE RStrip(_)
RStrip(s) ==
    IF s # <<>> /\ IsSpace(s[Len(s)]) THEN RStrip(SubSeq(s, 1, Len(s) - 1)) ELSE s

Strip(s) == LStrip(RStrip(s))

\* str.lstrip('|'): every leading "|" removed
RECURSIVE LStripPipe(_)
LStripPipe(s) == IF s # <<>> /\ Head(s) = PIPE THEN LStripPipe(Tail(s)) ELSE s

\* code point order of the first character of a token (Python compares str
\* by code point)
Ord(c) ==
    CASE c = SP -> 32
      [] c = "," -> 44
      [] c = "D" -> 68
      [] c = "J" -> 74
      [] c = "Q" -> 81
      [] c = "S" -> 83
      [] c = "d" -> 100
      [] c = "j" -> 106
      [] OTHER -> 127

\* s <= t in Python's str order
RECURSIVE StrLeq(_, _)
StrLeq(s, t) ==
    IF s = <<>> THEN TRUE
    ELSE IF t = <<>> THEN FALSE
    ELSE IF Ord(Head(s)) < Ord(Head(t)) THEN TRUE
    ELSE IF Ord(Head(s)) > Ord(Head(t)) THEN FALSE
    ELSE StrLeq(Tail(s), Tail(t))

\* insertion of x into the sorted list l, after the entries equal to it
RECURSIVE SortedInsert(_, _)
SortedInsert(l, x) ==
    IF l = <<>> THEN <<x>>
    ELSE IF StrLeq(Head(l), x) THEN <<Head(l)>> \o SortedInsert(Tail(l), x)
    ELSE <<x>> \o l

\* sorted(l)
RECURSIVE Sorted(_)
Sorted(l) ==
    IF l = <<>> THEN <<>> ELSE SortedInsert(Sorted(SubSeq(l, 1, Len(l) - 1)), l[Len(l)])

\* ------------------------------------------------------------ RE_SORTNAME
\* "." matches every character but the newline
NoNL(t, a, b) == \A x \in a..b : t[x] # NL

\* the end of (?P<articlename>\|.*?)?\}\} tried at position k: the position
\* of the closing "}}", or 0 when neither alternative matches
TailEnd(t, k) ==
    IF k > Len(t) THEN 0
    ELSE IF t[k] = PIPE
    THEN LET ms == {m \in (k + 1)..Len(t) : t[m] = CLOSE /\ NoNL(t, k + 1, m - 1)}
         IN  IF ms = {} THEN 0 ELSE CHOOSE m \in ms : \A n \in ms : m <= n
    ELSE IF t[k] = CLOSE THEN k
    ELSE 0

\* the shortest lastname starting at j for which the rest matches: the
\* position after it, or 0
LastEnd(t, j) ==
    LET ks == {k \in j..Len(t) : NoNL(t, j, k - 1) /\ TailEnd(t, k) # 0}
    IN  IF ks = {} THEN 0 ELSE CHOOSE k \in ks : \A n \in ks : k <= n

\* the shortest firstname starting at i for which the rest matches: the
\* position of the "|" after it, or 0
FirstEnd(t, i) ==
    LET js == {j \in i..Len(t) : t[j] = PIPE /\ NoNL(t, i, j - 1) /\ LastEnd(t, j + 1) # 0}
    IN  IF js = {} THEN 0 ELSE CHOOSE j \in js : \A n \in js : j <= n

\* RE_SORTNAME.match at position i
MatchAt(t, i) ==
    IF i + 1 <= Len(t) /\ t[i] = OPENW /\ t[i + 1] = PIPE /\ FirstEnd(t, i + 2) # 0
    THEN LET j == FirstEnd(t, i + 2)
             k == LastEnd(t, j + 1)
             m == TailEnd(t, k)
         IN  [ok |-> TRUE,
              groups |-> <<SubSeq(t, i + 2, j - 1), SubSeq(t, j + 1, k - 1), SubSeq(t, k, m - 1)>>,
              end |-> m]
    ELSE [ok |-> FALSE, groups |-> <<>>, end |-> 0]

\* RE_SORTNAME.findall(t), scanning from position i
RECURSIVE FindAllFrom(_, _)
FindAllFrom(t, i) ==
    IF i > Len(t) THEN <<>>
    ELSE LET r == MatchAt(t, i)
         IN  IF r.ok THEN <<r.groups>> \o FindAllFrom(t, r.end + 1)
             ELSE FindAllFrom(t, i + 1)

RE_SORTNAME_findall(t) == FindAllFrom(t, 1)

\* ---------------------------------------------------------- wiki markup
\* A parsed page section is a list of nodes: a sortname template with its
\* positional parameters, or a piece of plain text
SortnameNode(args) == [kind |-> "sortname", args |-> args]
TextNode(tok) == [kind |-> "text", args |-> <<<<tok>>>>]

RECURSIVE PipeJoin(_)
PipeJoin(args) == IF args = <<>> THEN <<>> ELSE <<PIPE>> \o Head(args) \o PipeJoin(Tail(args))

\* str(node)
NodeStr(n) ==
    IF n.kind = "sortname" THEN <<OPENW>> \o PipeJoin(n.args) \o <<CLOSE>> ELSE n.args[1]

\* str(section)
RECURSIVE SectionStr(_)
SectionStr(sec) == IF sec = <<>> THEN <<>> ELSE NodeStr(Head(sec)) \o SectionStr(Tail(sec))

\* mutation: the assertion on the number of sections is missing
current_members_first_section(page_sections) ==
    IF Len(page_sections) = 0
    THEN [ok |-> FALSE, members |-> <<>>]
    ELSE [ok |-> TRUE, members |-> RE_SORTNAME_findall(SectionStr(page_sections[1]))]

\* current_members(page_name, section_name) once the page text is fetched:
\* page_sections is the list of sections whose heading matches
current_members(page_sections) ==
    IF Len(page_sections) # 1
    THEN [ok |-> FALSE, members |-> <<>>]
    ELSE [ok |-> TRUE, members |-> RE_SORTNAME_findall(SectionStr(page_sections[1]))]

\* ------------------------------------------------------- names of a member
\* article_name.lstrip('|') if article_name else fname + ' ' + lname
ArticleName(m) == IF m[3] # <<>> THEN LStripPipe(m[3]) ELSE m[1] \o <<SP>> \o m[2]

\* 'us_congress_portrait_{}_{}.jpg'.format(lname.lower(), fname.lower())
ImgFileName(m) ==
    <<"us_congress_portrait_">> \o Lower(m[2]) \o <<"_">> \o Lower(m[1]) \o <<".jpg">>

\* '{}, {}'.format(lname, fname)
FailureName(m) == m[2] \o <<",", SP>> \o m[1]

\* '\n'.join(l)
RECURSIVE JoinLines(_)
JoinLines(l) ==
    IF l = <<>> THEN <<>>
    ELSE IF Len(l) = 1 THEN l[1]
    ELSE l[1] \o <<NL>> \o JoinLines(Tail(l))

\* ---------------------------------------------------------------- infobox
InfoboxNames ==
    { <<"infobox", SP, "officeholder">>, <<"infobox", SP, "senator">>,
      <<"infobox", SP, "congressman">>, <<"infobox", SP, "politician">>,
      <<"infobox", SP, "politician", SP, "(general)">> }

\* template.get('image'): the last parameter of that name; none raises
TemplateGet(t, name) ==
    LET hits == {i \in DOMAIN t.params : Strip(t.params[i].name) = name}
    IN  IF hits = {} THEN [ok |-> FALSE, value |-> <<>>]
        ELSE [ok |-> TRUE, value |-> t.params[CHOOSE i \in hits : \A j \in hits : j <= i].value]

IsInfobox(t) == Lower(Strip(t.name)) \in InfoboxNames

\* mutation: the assertion on the number of infoboxes is missing
wiki_read_officeholder_image_name_first(templates) ==
    LET infoboxen == SelectSeq(templates, IsInfobox)
    IN  IF Len(infoboxen) = 0 THEN [ok |-> FALSE, value |-> <<>>]
        ELSE LET image == TemplateGet(infoboxen[1], <<"image">>)
             IN  IF image.ok THEN [ok |-> TRUE, value |-> Strip(image.value)]
                 ELSE [ok |-> FALSE, value |-> <<>>]

\* wiki_read_officeholder_image_name(page_text); page_text is given as the
\* list of templates filter_templates() finds in it, nested ones included
wiki_read_officeholder_image_name(templates) ==
    LET infoboxen == SelectSeq(templates, IsInfobox)
    IN  IF Len(infoboxen) # 1 THEN [ok |-> FALSE, value |-> <<>>]
        ELSE LET image == TemplateGet(infoboxen[1], <<"image">>)
             IN  IF image.ok THEN [ok |-> TRUE, value |-> Strip(image.value)]
                 ELSE [ok |-> FALSE, value |-> <<>>]

\* -------------------------------------------------------------- image URL
\* 'File:{}'.format(file_name)
QueryTitle(file_name) == <<"File:">> \o file_name

\* the loop over //normalized/n: the last mapping from the query title wins
RECURSIVE ResponseTitle(_, _, _)
ResponseTitle(all_normalized, query_title, response_title) ==
    IF all_normalized = <<>> THEN response_title
    ELSE ResponseTitle(Tail(all_normalized), query_title,
                       IF Head(all_normalized).from = query_title
                       THEN Head(all_normalized).to ELSE response_title)

\* tree.xpath('//ii'), and page.xpath('//ii') alike: a path that starts with
\* // is evaluated from the document root, so it selects every ii node of
\* the response, in document order
RECURSIVE AllII(_)
AllII(pages) == IF pages = <<>> THEN <<>> ELSE Head(pages).ii \o AllII(Tail(pages))

\* wiki_query_image_url(file_name) once the response tree is parsed
wiki_query_image_url(file_name, tree) ==
    LET query_title == QueryTitle(file_name)
        response_title == ResponseTitle(tree.normalized, query_title, query_title)
        pages == SelectSeq(tree.pages, LAMBDA p : p.title = response_title)
        ii == AllII(tree.pages)
    IN  IF Len(pages) # 1 THEN [ok |-> FALSE, url |-> ""]
        ELSE IF Len(ii) # 1 THEN [ok |-> FALSE, url |-> ""]
        ELSE [ok |-> TRUE, url |-> ii[1]]

\* ------------------------------------------------------------------ state
VARIABLES
    wiki,            \* the remote pages: for each roster page the sections
                     \* whose heading matches the configured section name
    pc,              \* the statement main() is at
    senators,        \* main: senators
    representatives, \* main: representatives
    idx,             \* main: position of the for loop in senators + representatives
    article_name,    \* main: article_name
    img_file_name,   \* main: img_file_name
    failures,        \* main: failures
    stdout,          \* what was written to standard output, one entry per write
    stderr,          \* number of tracebacks printed
    fs,              \* the working directory: file name -> content
    open_files,      \* the file objects that are open
    page_text,       \* download_congress_portrait: page_text
    image_name,      \* download_congress_portrait: image_name
    tree,            \* wiki_query_image_url: tree
    image_url,       \* download_congress_portrait: image_url
    image_response,  \* download_congress_portrait: image_response
    exc,             \* the exception that is propagating: the step that raised it
    hist             \* history: per started member, what happened to it

vars == <<wiki, pc, senators, representatives, idx, article_name, img_file_name,
          failures, stdout, stderr, fs, open_files, page_text, image_name, tree,
          image_url, image_response, exc, hist>>

roster == <<senators, representatives>>
names == <<article_name, img_file_name>>
locals == <<page_text, image_name, tree, image_url, image_response>>

Members == senators \o representatives

NoTree == [normalized |-> <<>>, pages |-> <<>>]
NoResponse == [status |-> 0, raw |-> <<>>]

Out(kind, text, nums) == [kind |-> kind, text |-> text, nums |-> nums]

\* ------------------------------------------------------------- the inputs
J == <<"J">>
Cite2(f, l) == SortnameNode(<<f, l>>)
Cite3(f, l, a) == SortnameNode(<<f, l, a>>)

\* roster sections of the batch run: citations with two or three arguments
MainNodes ==
    { Cite2(J, <<"D">>), Cite2(J, <<"d">>), Cite3(<<"Q">>, <<"S">>, <<"Q", SP, "S">>) }

MainSections == SeqsUpTo(MainNodes, MaxRoster)

\* a roster page with no, one, or two sections of the configured heading
MainPages ==
    {<<>>} \cup {<<s>> : s \in MainSections} \cup {<<s, <<>>>> : s \in MainSections}

\* roster sections for the pattern: citations with one to four arguments,
\* blanks and newlines
RosterNodes ==
    {SortnameNode(<<J>>)}
    \cup {SortnameNode(<<J, l>>) : l \in {<<"D">>, <<"d">>}}
    \cup {SortnameNode(<<J, l, a>>) : l \in {<<"D">>, <<"d">>}, a \in {<<"Q">>, <<>>}}
    \cup {SortnameNode(<<J, l, a, <<"S">>>>) : l \in {<<"D">>, <<"d">>}, a \in {<<"Q">>, <<>>}}
    \cup {TextNode(NL), TextNode(SP)}

RosterSections == SeqsUpTo(RosterNodes, MaxItems)

Param(n, v) == [name |-> n, value |-> v]
Template(n, ps) == [name |-> n, params |-> ps]

TemplateNames ==
    { <<"Infobox", SP, "officeholder">>, <<"infobox", SP, "Officeholder", NL>>,
      <<SP, "Infobox", SP, "Senator">>, <<"infobox", SP, "congressman">>,
      <<"INFOBOX", SP, "politician", SP>>, <<"Infobox", SP, "politician", SP, "(general)", NL>>,
      <<"Infobox", SP, "Person">>, <<"cite", SP, "web">> }

TemplateParams ==
    { <<>>,
      <<Param(<<"image">>, <<"Jane_Doe.jpg">>)>>,
      <<Param(<<"name">>, <<"Jane">>), Param(<<SP, "image", SP>>, <<SP, "Jane_Doe.jpg", NL>>)>>,
      <<Param(<<"image">>, <<"Old.jpg">>), Param(<<"image">>, <<"Jane_Doe.jpg", SP>>)>> }

Templates == {Template(n, ps) : n \in TemplateNames, ps \in TemplateParams}

\* biography articles for the infobox reader
Articles == SeqsUpTo(Templates, MaxTemplates)

\* biography articles of the batch run: one infobox, none, two
GoodInfobox ==
    Template(<<"Infobox", SP, "officeholder">>, <<Param(<<"image">>, <<SP, "Jane_Doe.jpg", NL>>)>>)

MainArticles ==
    { <<Template(<<"cite", SP, "web">>, <<>>), GoodInfobox>>,
      <<Template(<<"cite", SP, "web">>, <<>>)>>,
      <<GoodInfobox, GoodInfobox>> }

TitleQ == <<"File:", "Jane_Doe.jpg">>
TitleN == <<"File:", "Jane Doe.jpg">>
TitleAPI == <<"API">>
Titles == {TitleQ, TitleN, TitleAPI}
Urls == {"http://u1", "http://u2"}

N(from, to) == [from |-> from, to |-> to]
Page(title, ii) == [title |-> title, ii |-> ii]

Normalizations ==
    { <<>>, <<N(TitleQ, TitleN)>>, <<N(TitleQ, TitleAPI), N(TitleQ, TitleN)>>,
      <<N(TitleN, TitleQ)>> }

\* image-metadata responses for the URL resolver
Trees ==
    { [normalized |-> n, pages |-> ps] :
        n \in Normalizations,
        ps \in SeqsUpTo({Page(t, ii) : t \in Titles, ii \in SeqsUpTo(Urls, MaxII)}, MaxPages) }

\* image-metadata responses of the batch run: found under the normalized
\* title, not found, found without image info
MainTrees ==
    { [normalized |-> <<N(TitleQ, TitleN)>>,
       pages |-> <<Page(TitleAPI, <<>>), Page(TitleN, <<"http://u1">>)>>],
      [normalized |-> <<>>, pages |-> <<Page(TitleAPI, <<>>)>>],
      [normalized |-> <<>>, pages |-> <<Page(TitleAPI, <<>>), Page(TitleQ, <<>>)>>] }

\* bodies of the image responses, in chunks
Bodies == {<<"b1", "b2">>}

OldContent == <<"old">>

\* ---------------------------------------------------------------- actions
Raise(step) ==
    /\ exc' = step
    /\ hist' = [hist EXCEPT ![idx].raised = TRUE]

\* line 55: senators = current_members(SENATE_PAGE_NAME, SENATE_SECTION_NAME)
\* the request may fail, the assertion may fail: neither is caught
LoadSenators ==
    /\ pc = "senators"
    /\ \E fetched \in BOOLEAN :
          LET r == current_members(wiki.senate)
          IN  IF fetched /\ r.ok
              THEN /\ senators' = r.members
                   /\ pc' = "representatives"
              ELSE /\ pc' = "crashed"
                   /\ UNCHANGED senators
    /\ UNCHANGED <<wiki, representatives, idx, names, failures, stdout, stderr, fs,
                   open_files, locals, exc, hist>>

\* lines 56-59
LoadRepresentatives ==
    /\ pc = "representatives"
    /\ \E fetched \in BOOLEAN :
          LET r == current_members(wiki.house)
          IN  IF fetched /\ r.ok
              THEN /\ representatives' = r.members
                   /\ stdout' = Append(stdout, Out("count", <<>>, <<Len(senators), Len(r.members)>>))
                   /\ failures' = <<>>
                   /\ pc' = "loop"
              ELSE /\ pc' = "crashed"
                   /\ UNCHANGED <<representatives, stdout, failures>>
    /\ UNCHANGED <<wiki, senators, idx, names, stderr, fs, open_files, locals, exc, hist>>

\* lines 60-65: the next member of senators + representatives
BeginMember ==
    /\ pc = "loop"
    /\ idx < Len(Members)
    /\ LET m == Members[idx + 1]
       IN  /\ idx' = idx + 1
           /\ article_name' = ArticleName(m)
           /\ img_file_name' = ImgFileName(m)
           /\ stdout' = Append(stdout, Out("member", m[2] \o <<",", SP>> \o m[1] \o <<"...">>, <<>>))
           /\ hist' = Append(hist, [member |-> m, opened |-> FALSE, raised |-> FALSE,
                                    before |-> IF ImgFileName(m) \in DOMAIN fs
                                               THEN <<fs[ImgFileName(m)]>> ELSE <<>>])
    /\ pc' = "open"
    /\ UNCHANGED <<wiki, roster, failures, stderr, fs, open_files, locals, exc>>

\* mutation: the file is opened without truncating it
OpenFileKeepsContent ==
    /\ pc = "open"
    /\ fs' = [n \in DOMAIN fs \cup {img_file_name} |-> IF n \in DOMAIN fs THEN fs[n] ELSE <<>>]
    /\ open_files' = Append(open_files, img_file_name)
    /\ hist' = [hist EXCEPT ![idx].opened = TRUE]
    /\ pc' = "fetch_article"
    /\ UNCHANGED <<wiki, roster, idx, names, failures, stdout, stderr, locals, exc>>

\* line 67: open(img_file_name, 'wb') creates the file or truncates it
OpenFile ==
    /\ pc = "open"
    /\ fs' = [n \in DOMAIN fs \cup {img_file_name} |-> IF n = img_file_name THEN <<>> ELSE fs[n]]
    /\ open_files' = Append(open_files, img_file_name)
    /\ hist' = [hist EXCEPT ![idx].opened = TRUE]
    /\ pc' = "fetch_article"
    /\ UNCHANGED <<wiki, roster, idx, names, failures, stdout, stderr, locals, exc>>

\* line 67: open() raises (the name is no valid path, no permission)
OpenFileFails ==
    /\ pc = "open"
    /\ Raise("open")
    /\ pc' = "except"
    /\ UNCHANGED <<wiki, roster, idx, names, failures, stdout, stderr, fs, open_files, locals>>

\* line 94: page_text = wiki_query_article(page_title)
FetchArticle ==
    /\ pc = "fetch_article"
    /\ \/ /\ \E text \in MainArticles : page_text' = text
          /\ pc' = "read_image_name"
          /\ UNCHANGED <<exc, hist>>
       \/ /\ Raise("fetch_article")
          /\ pc' = "close"
          /\ UNCHANGED page_text
    /\ UNCHANGED <<wiki, roster, idx, names, failures, stdout, stderr, fs, open_files,
                   image_name, tree, image_url, image_response>>

\* line 95: image_name = wiki_read_officeholder_image_name(page_text)
ReadImageName ==
    /\ pc = "read_image_name"
    /\ \E r \in {wiki_read_officeholder_image_name(page_text)} :
           IF r.ok
           THEN /\ image_name' = r.value
                /\ pc' = "query_image_url"
                /\ UNCHANGED <<exc, hist>>
           ELSE /\ Raise("read_image_name")
                /\ pc' = "close"
                /\ UNCHANGED image_name
    /\ UNCHANGED <<wiki, roster, idx, names, failures, stdout, stderr, fs, open_files,
                   page_text, tree, image_url, image_response>>

\* line 96: image_url = wiki_query_image_url(image_name), the response drawn
\* from responses
QueryImageUrl(responses) ==
    /\ pc = "query_image_url"
    /\ \/ \E t \in responses :
             LET r == wiki_query_image_url(image_name, t)
             IN  /\ tree' = t
                 /\ IF r.ok
                    THEN /\ image_url' = r.url
                         /\ pc' = "http_get"
                         /\ UNCHANGED <<exc, hist>>
                    ELSE /\ Raise("query_image_url")
                         /\ pc' = "close"
                         /\ UNCHANGED image_url
       \/ /\ Raise("query_image_url")
          /\ pc' = "close"
          /\ UNCHANGED <<tree, image_url>>
    /\ UNCHANGED <<wiki, roster, idx, names, failures, stdout, stderr, fs, open_files,
                   page_text, image_name, image_response>>

\* line 98: image_response = requests.get(image_url, stream=True)
HttpGet ==
    /\ pc = "http_get"
    /\ \/ /\ \E status \in {200, 404}, raw \in Bodies :
                image_response' = [status |-> status, raw |-> raw]
          /\ pc' = "raise_for_status"
          /\ UNCHANGED <<exc, hist>>
       \/ /\ Raise("http_get")
          /\ pc' = "close"
          /\ UNCHANGED image_response
    /\ UNCHANGED <<wiki, roster, idx, names, failures, stdout, stderr, fs, open_files,
                   page_text, image_name, tree, image_url>>

\* lines 99-100: image_response.raise_for_status()
RaiseForStatus ==
    /\ pc = "raise_for_status"
    /\ IF image_response.status = 200
       THEN /\ pc' = "copy"
            /\ UNCHANGED <<exc, hist>>
       ELSE /\ Raise("raise_for_status")
            /\ pc' = "close"
    /\ UNCHANGED <<wiki, roster, idx, names, failures, stdout, stderr, fs, open_files, locals>>

\* line 101: shutil.copyfileobj(image_response.raw, img_file): the whole
\* body, or a part of it when the stream breaks
CopyFileObj ==
    /\ pc = "copy"
    /\ \/ /\ fs' = [fs EXCEPT ![img_file_name] = image_response.raw]
          /\ UNCHANGED <<exc, hist>>
       \/ /\ \E n \in 0..(Len(image_response.raw) - 1) :
                fs' = [fs EXCEPT ![img_file_name] = SubSeq(image_response.raw, 1, n)]
          /\ Raise("copy")
    /\ pc' = "close"
    /\ UNCHANGED <<wiki, roster, idx, names, failures, stdout, stderr, open_files, locals>>

\* mutation: the file is closed on the success path only
CloseFileOnSuccessOnly ==
    /\ pc = "close"
    /\ open_files' = IF exc = "none" THEN SubSeq(open_files, 1, Len(open_files) - 1) ELSE open_files
    /\ page_text' = <<>>
    /\ image_name' = <<>>
    /\ tree' = NoTree
    /\ image_url' = ""
    /\ image_response' = NoResponse
    /\ pc' = IF exc = "none" THEN "else" ELSE "except"
    /\ UNCHANGED <<wiki, roster, idx, names, failures, stdout, stderr, fs, exc, hist>>

\* lines 67-68: the with statement closes the file as
\* download_congress_portrait returns or raises
CloseFile ==
    /\ pc = "close"
    /\ open_files' = SubSeq(open_files, 1, Len(open_files) - 1)
    /\ page_text' = <<>>
    /\ image_name' = <<>>
    /\ tree' = NoTree
    /\ image_url' = ""
    /\ image_response' = NoResponse
    /\ pc' = IF exc = "none" THEN "else" ELSE "except"
    /\ UNCHANGED <<wiki, roster, idx, names, failures, stdout, stderr, fs, exc, hist>>

\* mutation: the handler reports the failure and raises it again
ExceptReraises ==
    /\ pc = "except"
    /\ stdout' = Append(stdout, Out("status", <<SP, "FAILED.", NL>>, <<>>))
    /\ stderr' = stderr + 1
    /\ failures' = Append(failures, FailureName(Members[idx]))
    /\ pc' = "crashed"
    /\ UNCHANGED <<wiki, roster, idx, names, fs, open_files, locals, exc, hist>>

\* lines 69-72
Except ==
    /\ pc = "except"
    /\ stdout' = Append(stdout, Out("status", <<SP, "FAILED.", NL>>, <<>>))
    /\ stderr' = stderr + 1
    /\ failures' = Append(failures, FailureName(Members[idx]))
    /\ exc' = "none"
    /\ pc' = "loop"
    /\ UNCHANGED <<wiki, roster, idx, names, fs, open_files, locals, hist>>

\* lines 73-74
Else ==
    /\ pc = "else"
    /\ stdout' = Append(stdout, Out("status", <<SP, "OK", NL>>, <<>>))
    /\ pc' = "loop"
    /\ UNCHANGED <<wiki, roster, idx, names, failures, stderr, fs, open_files, locals, exc, hist>>

\* mutation: the failures are printed in the order they happened
PrintSummaryUnsorted ==
    /\ pc = "loop"
    /\ idx = Len(Members)
    /\ stdout' = Append(stdout, Out("summary", <<"failures:", NL>> \o JoinLines(failures), <<>>))
    /\ pc' = "done"
    /\ UNCHANGED <<wiki, roster, idx, names, failures, stderr, fs, open_files, locals, exc, hist>>

\* mutation: a run with failures ends with an error status
PrintSummaryExitsOnFailure ==
    /\ pc = "loop"
    /\ idx = Len(Members)
    /\ stdout' = Append(stdout, Out("summary", <<"failures:", NL>> \o JoinLines(Sorted(failures)), <<>>))
    /\ pc' = IF failures = <<>> THEN "done" ELSE "crashed"
    /\ UNCHANGED <<wiki, roster, idx, names, failures, stderr, fs, open_files, locals, exc, hist>>

\* line 76, once the loop is over
PrintSummary ==
    /\ pc = "loop"
    /\ idx = Len(Members)
    /\ stdout' = Append(stdout, Out("summary", <<"failures:", NL>> \o JoinLines(Sorted(failures)), <<>>))
    /\ pc' = "done"
    /\ UNCHANGED <<wiki, roster, idx, names, failures, stderr, fs, open_files, locals, exc, hist>>

\* --------------------------------------------------------- specifications
Fresh ==
    /\ pc = "senators"
    /\ senators = <<>>
    /\ representatives = <<>>
    /\ idx = 0
    /\ article_name = <<>>
    /\ img_file_name = <<>>
    /\ failures = <<>>
    /\ stdout = <<>>
    /\ stderr = 0
    /\ open_files = <<>>
    /\ page_text = <<>>
    /\ image_name = <<>>
    /\ tree = NoTree
    /\ image_url = ""
    /\ image_response = NoResponse
    /\ exc = "none"
    /\ hist = <<>>

\* the working directory is empty, or holds a portrait of an earlier run
Directories == {<<>>, [n \in {ImgFileName(<<J, <<"d">>, <<>>>>)} |-> OldContent]}

\* the batch run
Init ==
    /\ Fresh
    /\ wiki \in [senate : MainPages, house : MainPages]
    /\ fs \in Directories

Next ==
    \/ LoadSenators
    \/ LoadRepresentatives
    \/ BeginMember
    \/ OpenFile
    \/ OpenFileFails
    \/ FetchArticle
    \/ ReadImageName
    \/ QueryImageUrl(MainTrees)
    \/ HttpGet
    \/ RaiseForStatus
    \/ CopyFileObj
    \/ CloseFile
    \/ Except
    \/ Else
    \/ PrintSummary

Spec == Init /\ [][Next]_vars

\* every call returns and the interpreter runs on: the run takes its next step
FairSpec == Spec /\ WF_vars(Next)

\* the pattern and the names derived from it: wide roster sections, in a
\* working directory where no file can be opened
InitRoster ==
    /\ Fresh
    /\ wiki \in [senate : {<<sec>> : sec \in RosterSections}, house : {<<<<>>>>}]
    /\ fs = <<>>

NextRoster ==
    \/ LoadSenators
    \/ LoadRepresentatives
    \/ BeginMember
    \/ OpenFileFails
    \/ Except
    \/ PrintSummary

SpecRoster == InitRoster /\ [][NextRoster]_vars

\* the run at its first member, the output file open
MidMember == <<J, <<"d">>, <<>>>>

MidRun ==
    /\ wiki = [senate |-> <<<<Cite2(J, <<"d">>)>>>>, house |-> <<<<>>>>]
    /\ senators = <<MidMember>>
    /\ representatives = <<>>
    /\ idx = 1
    /\ article_name = ArticleName(MidMember)
    /\ img_file_name = ImgFileName(MidMember)
    /\ failures = <<>>
    /\ stdout = <<Out("count", <<>>, <<1, 0>>),
                  Out("member", <<"d", ",", SP, "J", "...">>, <<>>)>>
    /\ stderr = 0
    /\ fs = [n \in {ImgFileName(MidMember)} |-> <<>>]
    /\ open_files = <<ImgFileName(MidMember)>>
    /\ exc = "none"
    /\ hist = <<[member |-> MidMember, opened |-> TRUE, raised |-> FALSE, before |-> <<>>]>>
    /\ tree = NoTree
    /\ image_url = ""
    /\ image_response = NoResponse

\* the infobox reader on wide articles
InitInfobox ==
    /\ MidRun
    /\ pc = "read_image_name"
    /\ page_text \in Articles
    /\ image_name = <<>>

NextInfobox == ReadImageName

SpecInfobox == InitInfobox /\ [][NextInfobox]_vars

\* the image URL resolver on wide responses
InitImageUrl ==
    /\ MidRun
    /\ pc = "query_image_url"
    /\ page_text = <<GoodInfobox>>
    /\ image_name = <<"Jane_Doe.jpg">>

NextImageUrl == QueryImageUrl(Trees)

SpecImageUrl == InitImageUrl /\ [][NextImageUrl]_vars

\* ----------------------------------------------------------------- claims
IsPrefix(a, b) == Len(a) <= Len(b) /\ SubSeq(b, 1, Len(a)) = a

Raised == {j \in DOMAIN hist : hist[j].raised}

\* C1: every error of a member's pipeline ends in the handler of the loop
\* and never outside it: the members started so far are the first idx members
\* of senators + representatives, one start each and in list order, the run
\* crashes only before the loop, and it is done only after the last member
C1_LoopCatchesEveryError ==
    /\ Len(hist) = idx
    /\ idx <= Len(Members)
    /\ \A j \in DOMAIN hist : hist[j].member = Members[j]
    /\ Len(SelectSeq(stdout, LAMBDA o : o.kind = "member")) = idx
    /\ (exc # "none" => pc \in {"close", "except"})
    /\ (pc = "crashed" => idx = 0)
    /\ (pc = "done" => idx = Len(Members))

\* a run is done whose first member failed and whose second member succeeded
C1_Witness ==
    /\ pc = "done"
    /\ Len(hist) = 2
    /\ hist[1].raised
    /\ ~hist[2].raised

\* both roster extractions succeeded: line 57 has printed the counts
RostersLoaded == stdout # <<>>

C2_Finished == pc = "done" /\ stdout[Len(stdout)].kind = "summary"

\* the statements left to run: the members not yet started, and the
\* statements left in the member at hand
C2_Rank ==
    CASE pc = "done" -> 0
      [] pc = "loop" -> 1
      [] pc \in {"except", "else"} -> 2
      [] pc = "close" -> 3
      [] pc = "copy" -> 4
      [] pc = "raise_for_status" -> 5
      [] pc = "http_get" -> 6
      [] pc = "query_image_url" -> 7
      [] pc = "read_image_name" -> 8
      [] pc = "fetch_article" -> 9
      [] pc = "open" -> 10
      [] OTHER -> 11

C2_Left == (Len(Members) - idx) * 12 + C2_Rank

\* the run is at a statement that can be executed: the guards of the actions
C2_CanStep ==
    /\ pc \in {"loop", "open", "fetch_article", "read_image_name", "query_image_url",
               "http_get", "raise_for_status", "copy", "close", "except", "else"}
    /\ (pc = "loop" => idx <= Len(Members))
    /\ (pc = "copy" => img_file_name \in DOMAIN fs)

\* C2: once both rosters are loaded the run goes on to print the failure
\* summary and ends normally, whatever happens to the members: until it has
\* ended normally it has a next step, and every step leaves fewer statements
\* to run
C2_RunTerminatesNormally ==
    /\ [](RostersLoaded => (C2_Finished \/ C2_CanStep))
    /\ [][RostersLoaded => (C2_Left' < C2_Left /\ C2_Left' >= 0)]_vars

\* a statement that can be executed is a step of the run
C2_CanStepIsAStep == (RostersLoaded /\ C2_CanStep) => ENABLED Next

\* the same, as a property of the fair runs
C2_LeadsToSummary == RostersLoaded ~> C2_Finished

\* a run is done in which every member failed
C2_Witness ==
    /\ pc = "done"
    /\ Len(hist) = 2
    /\ \A j \in DOMAIN hist : hist[j].raised
    /\ stdout[Len(stdout)].kind = "summary"

\* the names of the members that raised, in the order they were processed
RECURSIVE RaisedNames(_)
RaisedNames(h) ==
    IF h = <<>> THEN <<>>
    ELSE (IF Head(h).raised THEN <<Head(h).member[2] \o <<",", SP>> \o Head(h).member[1]>>
          ELSE <<>>) \o RaisedNames(Tail(h))

Count(l, x) == Cardinality({i \in DOMAIN l : l[i] = x})

SortedCopyOf(l, m) ==
    /\ Len(l) = Len(m)
    /\ \A i \in DOMAIN l : Count(l, l[i]) = Count(m, l[i])
    /\ \A i \in DOMAIN l : \A j \in DOMAIN l : i < j => StrLeq(l[i], l[j])

Statuses == SelectSeq(stdout, LAMBDA o : o.kind = "status")

C3_Between ==
    pc \in {"loop", "done"} =>
        /\ failures = RaisedNames(hist)
        /\ Len(Statuses) = Len(hist)
        /\ \A j \in DOMAIN hist :
              Statuses[j].text = IF hist[j].raised THEN <<SP, "FAILED.", NL>> ELSE <<SP, "OK", NL>>

C3_AtEnd ==
    pc = "done" =>
        \E l \in [1..Len(failures) -> {failures[i] : i \in DOMAIN failures}] :
            /\ SortedCopyOf(l, failures)
            /\ stdout[Len(stdout)] = Out("summary", <<"failures:", NL>> \o JoinLines(l), <<>>)

\* C3: the failure list only grows; between members and at the end it holds
\* one "Lastname, Firstname" entry for each member that raised and none for
\* the others, a member is reported FAILED. exactly when it raised and OK
\* otherwise, and the summary prints the list in sorted order
C3_FailureList ==
    /\ [](C3_Between /\ C3_AtEnd)
    /\ [][IsPrefix(failures, failures')]_vars

\* a run is done with two failures that were recorded out of sorted order
C3_Witness ==
    /\ pc = "done"
    /\ Len(failures) = 2
    /\ ~StrLeq(failures[1], failures[2])

\* the citation the member at idx comes from, in a section whose citations
\* all carry at least two arguments
Citations(sec) == SelectSeq(sec, LAMBDA n : n.kind = "sortname")

C4_Section == wiki.senate[1]

\* C4: the article title is the third argument of the citation when it has
\* one, first name + " " + last name otherwise; the file name is
\* us_congress_portrait_<last name, lower case>_<first name, lower case>.jpg
C4_TitleAndFileName ==
    (/\ pc = "open"
     /\ \A i \in DOMAIN Citations(C4_Section) : Len(Citations(C4_Section)[i].args) >= 2)
    => LET args == Citations(C4_Section)[idx].args
       IN  /\ article_name = IF Len(args) >= 3 THEN args[3] ELSE args[1] \o <<SP>> \o args[2]
           /\ img_file_name =
                 <<"us_congress_portrait_">> \o Lower(args[2]) \o <<"_">> \o Lower(args[1]) \o <<".jpg">>

\* the triples of the citations with two or three arguments, in order
RECURSIVE WellFormedTriples(_)
WellFormedTriples(cs) ==
    IF cs = <<>> THEN <<>>
    ELSE LET a == Head(cs).args
         IN  (IF Len(a) = 2 THEN <<<<a[1], a[2], <<>>>>>>
              ELSE IF Len(a) = 3 THEN <<<<a[1], a[2], <<PIPE>> \o a[3]>>>>
              ELSE <<>>) \o WellFormedTriples(Tail(cs))

\* C5: in a section whose citations have one, two or three arguments, the
\* members are the triples of the citations with two or three arguments, in
\* document order; the citations with one argument leave no trace
C5_OneTriplePerCitation ==
    (/\ pc = "representatives"
     /\ \A i \in DOMAIN Citations(C4_Section) : Len(Citations(C4_Section)[i].args) <= 3)
    => senators = WellFormedTriples(Citations(C4_Section))

\* s without its leading and trailing whitespace, stated by position
Trimmed(s) ==
    LET inside == {i \in DOMAIN s : ~IsSpace(s[i])}
    IN  IF inside = {} THEN <<>>
        ELSE SubSeq(s, CHOOSE a \in inside : \A i \in inside : a <= i,
                       CHOOSE b \in inside : \A i \in inside : i <= b)

SameIgnoringCase(s, t) ==
    /\ Len(s) = Len(t)
    /\ \A i \in DOMAIN s : LowerTok(s[i]) = LowerTok(t[i])

Recognized(t) == \E n \in InfoboxNames : SameIgnoringCase(Trimmed(t.name), n)

RecognizedIn(templates) == {i \in DOMAIN templates : Recognized(templates[i])}

\* C6: the reader returns only when exactly one template of the article is
\* a recognized infobox, and then it returns the image field of that
\* template without its surrounding whitespace; with none or with several
\* it raises and returns nothing
C6_ExactlyOneInfobox ==
    pc # "read_image_name" =>
        LET rec == RecognizedIn(page_text)
        IN  /\ pc = "query_image_url" =>
                  /\ Cardinality(rec) = 1
                  /\ \E i \in rec : \E k \in DOMAIN page_text[i].params :
                        /\ Trimmed(page_text[i].params[k].name) = <<"image">>
                        /\ \A k2 \in DOMAIN page_text[i].params :
                              k2 > k => Trimmed(page_text[i].params[k2].name) # <<"image">>
                        /\ image_name = Trimmed(page_text[i].params[k].value)
            /\ Cardinality(rec) # 1 =>
                  /\ pc = "close"
                  /\ exc = "read_image_name"
                  /\ image_name = <<>>

\* the reader returned the image name of an article with two templates, one
\* of them an infobox whose image value is padded with whitespace
C6_Witness ==
    /\ pc = "query_image_url"
    /\ Len(page_text) = 2
    /\ image_name = <<"Jane_Doe.jpg">>
    /\ \E i \in RecognizedIn(page_text) : \E k \in DOMAIN page_text[i].params :
          page_text[i].params[k].value = <<SP, "Jane_Doe.jpg", NL>>

\* the title the claim selects the page node by
C7_Title ==
    LET q == <<"File:">> \o image_name
        maps == {i \in DOMAIN tree.normalized : tree.normalized[i].from = q}
    IN  IF maps = {} THEN q
        ELSE tree.normalized[CHOOSE i \in maps : \A j \in maps : j <= i].to

\* C7: the resolver returns only when exactly one page node has the
\* (normalized) title and exactly one ii node lies under that page node, and
\* it returns the url of that ii node
C7_UrlFromThePageNode ==
    pc = "http_get" =>
        LET under == {i \in DOMAIN tree.pages : tree.pages[i].title = C7_Title}
        IN  /\ Cardinality(under) = 1
            /\ \A i \in under : tree.pages[i].ii = <<image_url>>

\* C8: at most one destination file is open, and none is open between two
\* members, before the loop or after it
C8_OneOpenFile ==
    /\ Len(open_files) <= 1
    /\ (pc \in {"senators", "representatives", "loop", "open", "except", "else", "done",
                "crashed"} => open_files = <<>>)
    /\ (open_files # <<>> => open_files = <<img_file_name>>)

\* the handler runs for a member whose file was opened, and the file is closed
C8_Witness ==
    /\ pc = "except"
    /\ hist[idx].opened
    /\ open_files = <<>>

\* C9: when a roster page does not hold exactly one section of the
\* configured heading, the run never reaches the loop: no member is started,
\* no file is opened or changed, nothing is printed
C9_NoUniqueSectionAborts ==
    (Len(wiki.senate) # 1 \/ Len(wiki.house) # 1) =>
        /\ pc \in {"senators", "representatives", "crashed"}
        /\ (pc = "representatives" => Len(wiki.senate) = 1)
        /\ idx = 0
        /\ hist = <<>>
        /\ open_files = <<>>
        /\ fs \in Directories
        /\ stdout = <<>>

\* the run crashed on the second roster page, which holds two such sections,
\* after the first page gave a senator
C9_Witness ==
    /\ pc = "crashed"
    /\ Len(wiki.senate) = 1
    /\ senators # <<>>
    /\ Len(wiki.house) = 2

BeforeCopy == {"open", "fetch_article", "read_image_name", "query_image_url", "http_get",
               "raise_for_status"}

\* C10 as stated: after a member whose pipeline failed before the copy step
\* the output file exists and is empty
C10_EmptyFileAfterFailure ==
    (pc = "except" /\ exc \in BeforeCopy) =>
        /\ img_file_name \in DOMAIN fs
        /\ fs[img_file_name] = <<>>

\* C10, amended: the file is empty from the moment it is opened until the
\* copy step, and after a member whose file was opened and whose pipeline
\* failed before the copy step it exists and is empty
C10_EmptyFileOnceOpened ==
    /\ (pc \in {"fetch_article", "read_image_name", "query_image_url", "http_get",
                "raise_for_status", "copy"} =>
            /\ img_file_name \in DOMAIN fs
            /\ fs[img_file_name] = <<>>)
    /\ ((pc \in {"close", "except"} /\ exc \in BeforeCopy /\ hist[idx].opened) =>
            /\ img_file_name \in DOMAIN fs
            /\ fs[img_file_name] = <<>>)

\* the image request of a member was answered 404, and the file, which held
\* content before the member was started, is empty
C10_Witness ==
    /\ pc = "except"
    /\ exc = "raise_for_status"
    /\ hist[idx].opened
    /\ hist[idx].before # <<>>
    /\ hist[idx].before[1] # <<>>
    /\ fs[img_file_name] = <<>>
====
